---- MODULE Spec2Model ----
(***************************************************************************)
(* Trait resolution used by trans (librustc/traits/trans/mod.rs):          *)
(* trans_fulfill_obligation and InferCtxt::drain_fulfillment_cx_or_panic,  *)
(* run by several resolution calls over a shared trait cache.              *)
(***************************************************************************)
EXTENDS Naturals, Sequences, FiniteSets, TLC

\* ------------------------------------------------------------------ bounds

\* Number of resolution calls that may be in flight at the same time.
NumCalls == 2

\* Total number of resolution calls started in one behaviour.
MaxStarted == 2

Calls == 1..NumCalls

\* "No value": an unset local, an absent result.
None == [none |-> TRUE]

\* ------------------------------------------------- types, regions, values

\* The erased region ('re_erased) and a named region of the caller.
ReErased == "'erased"
Regions == {ReErased, "'a"}

\* A region inference variable created by the inference context.
ReVar == "'_#0r"

\* The type inference variable created when an impl is instantiated.
TyVar == "?T"

\* Trait predicates ("Self: Trait") that can be asked for.
Preds ==
  {"Vec<Vec<i32>>: Clone", "Vec<i32>: Clone", "i32: Clone", "Opaque: Clone",
   "NoImpl: Clone", "Ambig: Clone", "(NoImpl, Ambig): Clone", "Unconstrained: Tr"}

\* The predicates that callers supply with a region annotation as well as
\* without one.
RegionPreds == {"Vec<i32>: Clone", "NoImpl: Clone"}

\* ty::PolyTraitRef: a trait predicate with its region annotation.
TraitRefs ==
  {tr \in [pred : Preds, rgn : Regions] :
     tr.rgn # ReErased => tr.pred \in RegionPreds}

\* ty::ParamEnv: the caller's assumed bounds, and the region they mention.
ParamEnvs ==
  {[caller_bounds |-> {}, rgn |-> ReErased],
   [caller_bounds |-> {"Opaque: Clone"}, rgn |-> ReErased],
   [caller_bounds |-> {"Opaque: Clone"}, rgn |-> "'a"]}

\* tcx.erase_regions on a trait reference.
erase_regions_ref(tr) == [tr EXCEPT !.rgn = ReErased]

\* tcx.erase_regions on an environment.
erase_regions_env(env) == [env EXCEPT !.rgn = ReErased]

\* A term of a substitution: a type (or the inference variable) and a region.
Term(ty, rgn) == [ty |-> ty, rgn |-> rgn]

\* The set of elements of a sequence.
Range(s) == {s[i] : i \in 1..Len(s)}

\* ObligationCause::dummy()
DummyCause == "dummy"

\* Obligation::new(cause, param_env, predicate); binds is the unification the
\* predicate performs on the inference context when it is discharged.
Obligation(cause, env, tr, binds) ==
  [cause |-> cause, param_env |-> env, predicate |-> tr, binds |-> binds]

\* A nested obligation imposed by a candidate.
Nested(env, pred, binds) ==
  Obligation("nested", env, [pred |-> pred, rgn |-> ReErased], binds)

\* Vtable<'tcx, N>: the chosen candidate with one N per nested obligation.
Vtable(kind, impl, substs, nested) ==
  [kind |-> kind, impl |-> impl, substs |-> substs, nested |-> nested]

\* Result<Option<Selection>, SelectionError> of SelectionContext::select.
OkSome(sel) == [tag |-> "OkSome", selection |-> sel]
OkNone == [tag |-> "OkNone"]
Err(e) == [tag |-> "Err", error |-> e]

\* SelectionContext::select: the candidate for one obligation. Regions of the
\* predicate and of the environment do not take part in the choice; a
\* where-clause candidate carries the region of the environment's bound.
select(o) ==
  LET p == o.predicate.pred
      env == o.param_env
  IN CASE p = "i32: Clone" ->
            OkSome(Vtable("Builtin", "builtin", <<>>, <<>>))
       [] p = "Vec<i32>: Clone" ->
            OkSome(Vtable("Impl", "impl Clone for Vec<T>",
                          <<Term(TyVar, ReVar)>>,
                          <<Nested(env, "i32: Clone", <<TyVar, "i32">>)>>))
       [] p = "Vec<Vec<i32>>: Clone" ->
            OkSome(Vtable("Impl", "impl Clone for Vec<T>",
                          <<Term("Vec<i32>", ReVar)>>,
                          <<Nested(env, "Vec<i32>: Clone", <<>>)>>))
       [] p = "Opaque: Clone" ->
            IF p \in env.caller_bounds
              THEN OkSome(Vtable("Param", "where-clause",
                                 <<Term("Opaque", env.rgn)>>, <<>>))
              ELSE Err("Unimplemented")
       [] p = "(NoImpl, Ambig): Clone" ->
            OkSome(Vtable("Impl", "impl Clone for (A, B)",
                          <<Term("NoImpl", ReVar), Term("Ambig", ReVar)>>,
                          <<Nested(env, "NoImpl: Clone", <<>>),
                            Nested(env, "Ambig: Clone", <<>>)>>))
       [] p = "Unconstrained: Tr" ->
            OkSome(Vtable("Impl", "impl<T> Tr for Unconstrained",
                          <<Term(TyVar, ReErased)>>, <<>>))
       [] p = "Ambig: Clone" -> OkNone
       [] OTHER -> Err("Unimplemented")

\* FulfillmentContext::new(): an empty worklist.
FulfillmentContext_new ==
  [pending |-> <<>>, stalled |-> <<>>, errors |-> <<>>, discharged |-> <<>>]

\* FulfillmentContext::register_predicate_obligation.
register_predicate_obligation(fcx, o) ==
  [fcx EXCEPT !.pending = Append(@, o)]

\* One attempt of the worklist on its first pending obligation: discharged
\* (its own nested obligations become pending), stalled, or failed.
process_obligation(fcx, o) ==
  LET r == select(o)
      rest == [fcx EXCEPT !.pending = Tail(@)]
  IN CASE r.tag = "OkSome" ->
            [rest EXCEPT !.pending = @ \o r.selection.nested,
                         !.discharged = Append(@, o)]
       [] r.tag = "OkNone" -> [rest EXCEPT !.stalled = Append(@, o)]
       [] OTHER ->
            [rest EXCEPT !.errors =
               Append(@, [obligation |-> o, code |-> r.error])]

\* The ambiguity error the worklist reports for an obligation left pending.
AmbiguityError(o) == [obligation |-> o, code |-> "Ambiguity"]

\* FulfillmentContext::select_all_or_error, once no attempt is left: Ok(()) or
\* Err with every failure.
select_all_or_error(fcx) ==
  LET errors ==
        fcx.errors \o
        [i \in 1..Len(fcx.stalled) |-> AmbiguityError(fcx.stalled[i])]
  IN IF errors = <<>> THEN [tag |-> "Ok"] ELSE [tag |-> "Err", errors |-> errors]

\* The binding of a type variable that nothing has unified yet.
Unbound == "unbound"

\* An obligation whose discharge unifies nothing.
NoBinds == <<>>

\* The outcome of a call that ended in bug!/span_bug!.
FatalOutcome == [fatal |-> TRUE]

\* The inference context of one call: the binding of its type variable.
InferCtxt_new == [ty_var |-> Unbound]

\* Unification done by discharging an obligation.
unify(infcx, binds) ==
  IF binds = NoBinds THEN infcx ELSE [infcx EXCEPT !.ty_var = binds[2]]

\* infcx.resolve_type_vars_if_possible on one term.
resolve_term(infcx, t) ==
  IF t.ty = TyVar /\ infcx.ty_var # Unbound
    THEN [t EXCEPT !.ty = infcx.ty_var] ELSE t

\* infcx.resolve_type_vars_if_possible on a vtable.
resolve_type_vars_if_possible(infcx, v) ==
  [v EXCEPT !.substs = [i \in 1..Len(v.substs) |-> resolve_term(infcx, v.substs[i])]]

\* tcx.erase_regions on a vtable.
erase_regions(v) ==
  [v EXCEPT !.substs = [i \in 1..Len(v.substs) |-> [v.substs[i] EXCEPT !.rgn = ReErased]]]

\* Number of unresolved inference placeholders of a vtable.
Placeholders(v) ==
  Cardinality({i \in 1..Len(v.substs) : v.substs[i].ty = TyVar})

\* Number of region annotations (regions that are not erased) of a vtable.
RegionAnnotations(v) ==
  Cardinality({i \in 1..Len(v.substs) : v.substs[i].rgn # ReErased})

\* tcx.lift_to_global: Some(value) when the value holds no inference
\* variable (type or region), None otherwise.
lift_to_global(v) ==
  IF \E i \in 1..Len(v.substs) : v.substs[i].ty = TyVar \/ v.substs[i].rgn = ReVar
    THEN None ELSE v

\* -------------------------------------------------- trans_fulfill_obligation

\* erased_trait_ref without the erasure.
erased_trait_ref_kept(tr) == tr

\* `let trait_ref = ty.erase_regions(&trait_ref);`
erased_trait_ref(tr) == erase_regions_ref(tr)

\* TraitSelectionCache::Key = (ParamEnv, PolyTraitRef)
Key(env, tr) == <<env, tr>>

\* new_obligation with the regions of the environment erased as well.
new_obligation_erased_env(env, tr) ==
  Obligation(DummyCause, erase_regions_env(env), tr, <<>>)

\* Obligation::new(ObligationCause::dummy(), param_env,
\*                 trait_ref.to_poly_trait_predicate())
new_obligation(env, tr) == Obligation(DummyCause, env, tr, <<>>)

\* match_select with the Ok(None) arm falling back to a built-in candidate
\* instead of bug!.
match_select_picks(r, tr) ==
  CASE r.tag = "OkSome" ->
         [fatal |-> FALSE, selection |-> r.selection, report |-> None]
    [] r.tag = "OkNone" ->
         [fatal |-> FALSE,
          selection |-> Vtable("Builtin", "builtin", <<>>, <<>>),
          report |-> None]
    [] OTHER ->
         [fatal |-> TRUE, selection |-> None,
          report |-> [class |-> "SelectionError", trait_ref |-> tr,
                      errors |-> <<r.error>>]]

\* `match selcx.select(&obligation)`: the selection, or the bug! report.
match_select(r, tr) ==
  CASE r.tag = "OkSome" ->
         [fatal |-> FALSE, selection |-> r.selection, report |-> None]
    [] r.tag = "OkNone" ->
         [fatal |-> TRUE, selection |-> None,
          report |-> [class |-> "Ambiguity", trait_ref |-> tr, errors |-> <<>>]]
    [] OTHER ->
         [fatal |-> TRUE, selection |-> None,
          report |-> [class |-> "SelectionError", trait_ref |-> tr,
                      errors |-> <<r.error>>]]

\* register_all that registers the first nested predicate only.
register_all_head(fcx, nested) ==
  IF nested = <<>> THEN fcx
  ELSE register_predicate_obligation(fcx, Head(nested))

\* The closure of selection.map registers each nested predicate in turn.
RECURSIVE register_all(_, _)
register_all(fcx, nested) ==
  IF nested = <<>> THEN fcx
  ELSE register_all(register_predicate_obligation(fcx, Head(nested)), Tail(nested))

\* selection_map that drops the nested list.
selection_map_dropped(sel) == [sel EXCEPT !.nested = <<>>]

\* The value the closure of selection.map returns for a nested predicate.
Unit == [unit |-> TRUE]

\* selection.map(|predicate| ...): the vtable with () for each nested predicate.
selection_map(sel) == [sel EXCEPT !.nested = [i \in 1..Len(sel.nested) |-> Unit]]

\* ------------------------------------------- drain_fulfillment_cx_or_panic

\* match_select_all with the test inverted.
match_select_all_inverted(r) ==
  IF r.tag # "Ok"
    THEN [fatal |-> FALSE, report |-> None]
    ELSE [fatal |-> TRUE,
          report |-> [class |-> "UnresolvedObligation", errors |-> <<>>]]

\* match_select_all with the Err arm ignored.
match_select_all_ignored(r) == [fatal |-> FALSE, report |-> None]

\* match_select_all reporting the first error only.
match_select_all_first(r) ==
  IF r.tag = "Ok"
    THEN [fatal |-> FALSE, report |-> None]
    ELSE [fatal |-> TRUE,
          report |-> [class |-> "UnresolvedObligation",
                      errors |-> <<Head(r.errors)>>]]

\* `match fulfill_cx.select_all_or_error(self)`: go on, or the span_bug! report.
match_select_all(r) ==
  IF r.tag = "Ok"
    THEN [fatal |-> FALSE, report |-> None]
    ELSE [fatal |-> TRUE,
          report |-> [class |-> "UnresolvedObligation", errors |-> r.errors]]

\* result_resolved without the resolution.
result_resolved_skipped(infcx, v) == v

\* `let result = self.resolve_type_vars_if_possible(result);`
result_resolved(infcx, v) == resolve_type_vars_if_possible(infcx, v)

\* result_erased without the erasure.
result_erased_kept(v) == v

\* `let result = self.tcx.erase_regions(&result);`
result_erased(v) == erase_regions(v)

\* match_lift with the None arm returning the unlifted value instead of
\* span_bug!.
match_lift_unchecked(l, v) ==
  [fatal |-> FALSE, value |-> v, report |-> None]

\* `match self.tcx.lift_to_global(&result)`: the lifted value, or span_bug!.
match_lift(l, v) ==
  IF l # None
    THEN [fatal |-> FALSE, value |-> l, report |-> None]
    ELSE [fatal |-> TRUE, value |-> None,
          report |-> [class |-> "UnliftedState", value |-> v, errors |-> <<>>]]

\* ------------------------------------ subst_and_normalize_erasing_regions

\* Largest number of type constructors of a value handed to the normalizer.
MaxDepth == 2

\* Largest number of times the normalizer is applied to its own output.
MaxNormalize == 2

\* Type parameters, and the types without parameters or constructors.
Params == {"T", "U"}
Leaves == Params \cup {"i32", "Opaque"}

\* Type constructors: Vec<X>, the projection <X as IntoIterator>::Item, and
\* the references &'a X and &'erased X.
RefA == "&'a"
RefErased == "&"
Ctors == {"Vec", "Item", RefA, RefErased}

\* A type: its constructors from the outermost to the innermost, and its leaf.
Ty(ctors, leaf) == [ctors |-> ctors, leaf |-> leaf]

\* The values handed to the normalizer.
Values ==
  {Ty(cs, l) : cs \in UNION {[1..n -> Ctors] : n \in 0..MaxDepth}, l \in Leaves}

\* The types a substitution maps a parameter to.
Images ==
  {Ty(<<>>, "i32"), Ty(<<"Vec">>, "i32"), Ty(<<RefA>>, "Opaque"),
   Ty(<<"Item">>, "Opaque"), Ty(<<>>, "U"), Ty(<<"Vec">>, "T")}

\* Substs: a type for each type parameter.
Substs == [Params -> Images]

\* The environments of the normalizer: no bound, or the bound
\* `Opaque: IntoIterator<Item = i32>`.
ProjectionEnvs ==
  {[caller_bounds |-> {}, rgn |-> ReErased],
   [caller_bounds |-> {[self |-> "Opaque", item |-> Ty(<<>>, "i32")]},
    rgn |-> ReErased]}

\* value.subst(tcx, substs): each type parameter is replaced, once, by the
\* type the substitution gives for it.
subst(v, substs) ==
  IF v.leaf \in Params
    THEN Ty(v.ctors \o substs[v.leaf].ctors, substs[v.leaf].leaf)
    ELSE v

\* tcx.erase_regions on a type.
erase_regions_ty(v) ==
  Ty([i \in 1..Len(v.ctors) |->
        IF v.ctors[i] = RefA THEN RefErased ELSE v.ctors[i]], v.leaf)

\* The projection <inner as IntoIterator>::Item: the element type of a Vec,
\* the type a bound of the environment gives for it, or the projection
\* itself when neither an impl nor a bound resolves it.
project(env, inner) ==
  IF inner.ctors # <<>> /\ Head(inner.ctors) = "Vec"
    THEN Ty(Tail(inner.ctors), inner.leaf)
  ELSE IF inner.ctors = <<>> /\
          \E b \in env.caller_bounds : b.self = inner.leaf
    THEN (CHOOSE b \in env.caller_bounds : b.self = inner.leaf).item
  ELSE Ty(<<"Item">> \o inner.ctors, inner.leaf)

\* Normalization of the associated types of a type, innermost first.
RECURSIVE normalize_projections(_, _)
normalize_projections(env, v) ==
  IF v.ctors = <<>> THEN v
  ELSE LET inner == normalize_projections(env, Ty(Tail(v.ctors), v.leaf))
       IN IF Head(v.ctors) = "Item"
            THEN project(env, inner)
            ELSE Ty(<<Head(v.ctors)>> \o inner.ctors, inner.leaf)

\* tcx.normalize_erasing_regions(param_env, value): regions are erased, then
\* associated types are normalized.
normalize_erasing_regions(env, v) ==
  normalize_projections(env, erase_regions_ty(v))

\* subst_and_normalize_erasing_regions normalizing before it substitutes.
subst_and_normalize_swapped(substs, env, v) ==
  subst(normalize_erasing_regions(env, v), substs)

\* `let substituted = value.subst(self, param_substs);
\*  self.normalize_erasing_regions(param_env, substituted)`
subst_and_normalize_erasing_regions(substs, env, v) ==
  normalize_erasing_regions(env, subst(v, substs))

\* ------------------------------------------------------------------- state

VARIABLES
  pc,            \* position of each call
  arg,           \* (param_env, trait_ref) as supplied by the caller
  param_env,     \* the environment of the call
  trait_ref,     \* the region-erased trait reference
  key,           \* the call's key of the trait cache
  infcx,         \* the call's inference context, None outside `enter`
  obligation,    \* the top-level obligation
  selection,     \* the selection (Vtable<PredicateObligation>)
  fulfill_cx,    \* the fulfillment context, None before it is created
  vtable,        \* the vtable handed to drain_fulfillment_cx_or_panic
  result,        \* `result` inside drain_fulfillment_cx_or_panic
  ret,           \* the value the call returns
  report,        \* the report of bug!/span_bug!
  cache,         \* the trait cache: key -> Vtable<()>
  started,       \* number of calls started
  select_calls,  \* counter on the selection engine: top-level selects per key
  outcomes,      \* per key: the input and the outcome of each call that ended
  norm           \* the normalizer: its arguments and the values it returned

locals ==
  <<arg, param_env, trait_ref, key, infcx, obligation, selection, fulfill_cx,
    vtable, result, ret, report>>

vars ==
  <<pc, arg, param_env, trait_ref, key, infcx, obligation, selection,
    fulfill_cx, vtable, result, ret, report, cache, started, select_calls,
    outcomes, norm>>

\* The predicates whose selection looks at the environment's bounds.
EnvPreds == {"Opaque: Clone"}

\* The (environment, trait reference) pairs a caller may supply: every trait
\* reference in the empty environment, and the trait references whose
\* predicate is in EnvPreds in every environment.
Inputs ==
  {i \in ParamEnvs \X TraitRefs :
     i[1].caller_bounds # {} => i[2].pred \in EnvPreds}

\* The key K of an input: the environment and the trait reference after
\* region erasure.
KeyOf(env, tr) == <<env, erase_regions_ref(tr)>>

Keys == {KeyOf(i[1], i[2]) : i \in Inputs}

\* An input with every region erased, in the environment and the trait reference.
ErasedPair(env, tr) == <<erase_regions_env(env), erase_regions_ref(tr)>>

\* The normalizer before it is called with (substs, env, v), and when it is
\* not called at all.
NormCall(substs, env, v) ==
  [param_substs |-> substs, param_env |-> env, value |-> v, results |-> <<>>]

NoNormCall == NormCall(<<>>, None, None)

\* No resolution call has been made.
InitCalls ==
  /\ pc = [c \in Calls |-> "Idle"]
  /\ arg = [c \in Calls |-> None]
  /\ param_env = [c \in Calls |-> None]
  /\ trait_ref = [c \in Calls |-> None]
  /\ key = [c \in Calls |-> None]
  /\ infcx = [c \in Calls |-> None]
  /\ obligation = [c \in Calls |-> None]
  /\ selection = [c \in Calls |-> None]
  /\ fulfill_cx = [c \in Calls |-> None]
  /\ vtable = [c \in Calls |-> None]
  /\ result = [c \in Calls |-> None]
  /\ ret = [c \in Calls |-> None]
  /\ report = [c \in Calls |-> None]
  /\ cache = <<>>
  /\ started = 0
  /\ select_calls = [k \in Keys |-> 0]
  /\ outcomes = [k \in Keys |-> {}]

Init == InitCalls /\ norm = NoNormCall

\* The outcome of a finished call is recorded, with the input as supplied,
\* for the key of its input.
Observe(c, outcome) ==
  LET k == KeyOf(arg[c][1], arg[c][2])
  IN outcomes' =
       [outcomes EXCEPT ![k] = @ \cup {[arg |-> arg[c], out |-> outcome]}]

\* The call ends in bug!/span_bug!: the closure of `enter` is left by the
\* panic and nothing is returned.
Fatal(c, rep) ==
  /\ pc' = [pc EXCEPT ![c] = "Fatal"]
  /\ report' = [report EXCEPT ![c] = rep]
  /\ infcx' = [infcx EXCEPT ![c] = None]
  /\ Observe(c, FatalOutcome)

\* A caller asks for (env, tr) in the first free call slot; the trait
\* reference is region-erased first.
Call(c, env, tr) ==
  /\ pc[c] = "Idle"
  /\ \A d \in Calls : d < c => pc[d] # "Idle"
  /\ started < MaxStarted
  /\ started' = started + 1
  /\ pc' = [pc EXCEPT ![c] = "Open"]
  /\ arg' = [arg EXCEPT ![c] = <<env, tr>>]
  /\ param_env' = [param_env EXCEPT ![c] = env]
  /\ trait_ref' = [trait_ref EXCEPT ![c] = erased_trait_ref(tr)]
  /\ key' = [key EXCEPT ![c] = Key(env, erased_trait_ref(tr))]
  /\ UNCHANGED <<infcx, obligation, selection, fulfill_cx, vtable, result,
                 ret, report, cache, select_calls, outcomes, norm>>

\* The lookup of the trait cache finds the key: the cached vtable is returned.
Hit(c) ==
  /\ pc[c] = "Open"
  /\ key[c] \in DOMAIN cache
  /\ pc' = [pc EXCEPT ![c] = "Hit"]
  /\ ret' = [ret EXCEPT ![c] = cache[key[c]]]
  /\ Observe(c, cache[key[c]])
  /\ UNCHANGED <<arg, param_env, trait_ref, key, infcx, obligation, selection,
                 fulfill_cx, vtable, result, report, cache, started,
                 select_calls, norm>>

\* Enter taking over the inference context another call has open instead of
\* creating its own.
Enter_shared(c) ==
  /\ pc[c] = "Open"
  /\ key[c] \notin DOMAIN cache
  /\ pc' = [pc EXCEPT ![c] = "Selecting"]
  /\ infcx' = [infcx EXCEPT ![c] =
                 IF \E d \in Calls : infcx[d] # None
                   THEN infcx[CHOOSE d \in Calls : infcx[d] # None]
                   ELSE InferCtxt_new]
  /\ obligation' = [obligation EXCEPT ![c] = new_obligation(param_env[c], trait_ref[c])]
  /\ UNCHANGED <<arg, param_env, trait_ref, key, selection, fulfill_cx,
                 vtable, result, ret, report, cache, started, select_calls,
                 outcomes, norm>>

\* The lookup misses: ty.infer_ctxt().enter, SelectionContext::new and
\* Obligation::new.
Enter(c) ==
  /\ pc[c] = "Open"
  /\ key[c] \notin DOMAIN cache
  /\ pc' = [pc EXCEPT ![c] = "Selecting"]
  /\ infcx' = [infcx EXCEPT ![c] = InferCtxt_new]
  /\ obligation' = [obligation EXCEPT ![c] = new_obligation(param_env[c], trait_ref[c])]
  /\ UNCHANGED <<arg, param_env, trait_ref, key, selection, fulfill_cx,
                 vtable, result, ret, report, cache, started, select_calls,
                 outcomes, norm>>

\* The selection engine's counter after one more top-level select made for
\* the input of call c.
Counted(c) ==
  [select_calls EXCEPT ![KeyOf(arg[c][1], arg[c][2])] = @ + 1]

\* Select with the fulfillment context created before the selection is
\* matched on.
Select_eager(c) ==
  /\ pc[c] = "Selecting"
  /\ select_calls' = Counted(c)
  /\ fulfill_cx' = [fulfill_cx EXCEPT ![c] = FulfillmentContext_new]
  /\ LET m == match_select(select(obligation[c]), trait_ref[c])
     IN IF m.fatal
          THEN /\ Fatal(c, m.report)
               /\ UNCHANGED selection
          ELSE /\ pc' = [pc EXCEPT ![c] = "Registering"]
               /\ selection' = [selection EXCEPT ![c] = m.selection]
               /\ UNCHANGED <<infcx, report, outcomes>>
  /\ UNCHANGED <<arg, param_env, trait_ref, key, obligation, vtable, result,
                 ret, cache, started, norm>>

\* selcx.select(&obligation) and the match on its result.
Select(c) ==
  /\ pc[c] = "Selecting"
  /\ select_calls' = Counted(c)
  /\ LET m == match_select(select(obligation[c]), trait_ref[c])
     IN IF m.fatal
          THEN /\ Fatal(c, m.report)
               /\ UNCHANGED selection
          ELSE /\ pc' = [pc EXCEPT ![c] = "Registering"]
               /\ selection' = [selection EXCEPT ![c] = m.selection]
               /\ UNCHANGED <<infcx, report, outcomes>>
  /\ UNCHANGED <<arg, param_env, trait_ref, key, obligation, fulfill_cx,
                 vtable, result, ret, cache, started, norm>>

\* FulfillmentContext::new() and selection.map(register_predicate_obligation).
Register(c) ==
  /\ pc[c] = "Registering"
  /\ pc' = [pc EXCEPT ![c] = "Fulfilling"]
  /\ fulfill_cx' = [fulfill_cx EXCEPT ![c] =
                      register_all(FulfillmentContext_new, selection[c].nested)]
  /\ vtable' = [vtable EXCEPT ![c] = selection_map(selection[c])]
  /\ UNCHANGED <<arg, param_env, trait_ref, key, infcx, obligation, selection,
                 result, ret, report, cache, started, select_calls, outcomes,
                 norm>>

\* select_all_or_error attempts the first pending obligation.
Fulfill(c) ==
  /\ pc[c] = "Fulfilling"
  /\ fulfill_cx[c].pending # <<>>
  /\ LET o == Head(fulfill_cx[c].pending)
     IN /\ fulfill_cx' = [fulfill_cx EXCEPT ![c] = process_obligation(@, o)]
        /\ infcx' = [infcx EXCEPT ![c] =
                       IF select(o).tag = "OkSome" THEN unify(@, o.binds) ELSE @]
  /\ UNCHANGED <<pc, arg, param_env, trait_ref, key, obligation, selection,
                 vtable, result, ret, report, cache, started, select_calls,
                 outcomes, norm>>

\* Drained where a failed drain goes back to selection instead of span_bug!.
Drained_retry(c) ==
  /\ pc[c] = "Fulfilling"
  /\ fulfill_cx[c].pending = <<>>
  /\ LET m == match_select_all(select_all_or_error(fulfill_cx[c]))
     IN pc' = [pc EXCEPT ![c] = IF m.fatal THEN "Selecting" ELSE "Resolving"]
  /\ fulfill_cx' = [fulfill_cx EXCEPT ![c] = None]
  /\ UNCHANGED <<arg, param_env, trait_ref, key, infcx, obligation, selection,
                 vtable, result, ret, report, cache, started, select_calls,
                 outcomes, norm>>

\* select_all_or_error returns and drain_fulfillment_cx_or_panic matches on it.
Drained(c) ==
  /\ pc[c] = "Fulfilling"
  /\ fulfill_cx[c].pending = <<>>
  /\ LET m == match_select_all(select_all_or_error(fulfill_cx[c]))
     IN IF m.fatal
          THEN Fatal(c, m.report)
          ELSE /\ pc' = [pc EXCEPT ![c] = "Resolving"]
               /\ UNCHANGED <<infcx, report, outcomes>>
  /\ UNCHANGED <<arg, param_env, trait_ref, key, obligation, selection,
                 fulfill_cx, vtable, result, ret, cache, started, select_calls,
                 norm>>

\* resolve_type_vars_if_possible(result)
Resolve(c) ==
  /\ pc[c] = "Resolving"
  /\ pc' = [pc EXCEPT ![c] = "Erasing"]
  /\ result' = [result EXCEPT ![c] = result_resolved(infcx[c], vtable[c])]
  /\ UNCHANGED <<arg, param_env, trait_ref, key, infcx, obligation, selection,
                 fulfill_cx, vtable, ret, report, cache, started, select_calls,
                 outcomes, norm>>

\* erase_regions(&result)
Erase(c) ==
  /\ pc[c] = "Erasing"
  /\ pc' = [pc EXCEPT ![c] = "Lifting"]
  /\ result' = [result EXCEPT ![c] = result_erased(@)]
  /\ UNCHANGED <<arg, param_env, trait_ref, key, infcx, obligation, selection,
                 fulfill_cx, vtable, ret, report, cache, started, select_calls,
                 outcomes, norm>>

\* lift_to_global(&result) and the match on it; on Some the closure of `enter`
\* returns the vtable and the inference context is gone.
Lift(c) ==
  /\ pc[c] = "Lifting"
  /\ LET m == match_lift(lift_to_global(result[c]), result[c])
     IN IF m.fatal
          THEN /\ Fatal(c, m.report)
               /\ UNCHANGED ret
          ELSE /\ pc' = [pc EXCEPT ![c] = "Lifted"]
               /\ ret' = [ret EXCEPT ![c] = m.value]
               /\ infcx' = [infcx EXCEPT ![c] = None]
               /\ Observe(c, m.value)
               /\ UNCHANGED report
  /\ UNCHANGED <<arg, param_env, trait_ref, key, obligation, selection,
                 fulfill_cx, vtable, result, cache, started, select_calls,
                 norm>>

\* cache_insert where a second writer of a key overwrites the entry while its
\* value is still being written (the nested list is not there yet).
cache_insert_torn(m, k, v) ==
  [x \in DOMAIN m \cup {k} |->
     IF x = k
       THEN (IF k \in DOMAIN m THEN [v EXCEPT !.nested = <<>>] ELSE v)
       ELSE m[x]]

\* The trait cache with the value of a finished resolution put under its key;
\* an entry that is already there stays (one winning writer per key).
cache_insert(m, k, v) ==
  IF k \in DOMAIN m THEN m
  ELSE [x \in DOMAIN m \cup {k} |-> IF x = k THEN v ELSE m[x]]

ResetLocals(c) ==
  /\ arg' = [arg EXCEPT ![c] = None]
  /\ param_env' = [param_env EXCEPT ![c] = None]
  /\ trait_ref' = [trait_ref EXCEPT ![c] = None]
  /\ key' = [key EXCEPT ![c] = None]
  /\ obligation' = [obligation EXCEPT ![c] = None]
  /\ selection' = [selection EXCEPT ![c] = None]
  /\ fulfill_cx' = [fulfill_cx EXCEPT ![c] = None]
  /\ vtable' = [vtable EXCEPT ![c] = None]
  /\ result' = [result EXCEPT ![c] = None]
  /\ ret' = [ret EXCEPT ![c] = None]

\* The value of the resolution is stored in the trait cache and handed to the
\* caller.
Memoize(c) ==
  /\ pc[c] = "Lifted"
  /\ cache' = cache_insert(cache, key[c], ret[c])
  /\ pc' = [pc EXCEPT ![c] = "Idle"]
  /\ ResetLocals(c)
  /\ UNCHANGED <<infcx, report, started, select_calls, outcomes, norm>>

\* The caller takes the cached value.
Return(c) ==
  /\ pc[c] = "Hit"
  /\ pc' = [pc EXCEPT ![c] = "Idle"]
  /\ ResetLocals(c)
  /\ UNCHANGED <<infcx, report, cache, started, select_calls, outcomes,
                 norm>>

\* One step of a call that has been started.
Step(c) ==
  \/ Hit(c)
  \/ Enter(c)
  \/ Select(c)
  \/ Register(c)
  \/ Fulfill(c)
  \/ Drained(c)
  \/ Resolve(c)
  \/ Erase(c)
  \/ Lift(c)
  \/ Memoize(c)
  \/ Return(c)

Next ==
  \/ \E c \in Calls : \E i \in Inputs : Call(c, i[1], i[2])
  \/ \E c \in Calls : Step(c)

Spec == Init /\ [][Next]_vars

\* A call is started only when no other call is in flight: the calls of one
\* thread, each run to completion before the next.
SeqCall(c, env, tr) ==
  /\ \A d \in Calls : pc[d] \in {"Idle", "Fatal"}
  /\ Call(c, env, tr)

SeqNext ==
  \/ \E c \in Calls : \E i \in Inputs : SeqCall(c, i[1], i[2])
  \/ \E c \in Calls : Step(c)

SeqSpec == Init /\ [][SeqNext]_vars

\* A call that has been started runs to completion: it has no suspension point.
FairSpec == Init /\ [][SeqNext]_vars /\ \A c \in Calls : WF_vars(Step(c))

\* The value the next call of the normalizer is given: the caller's value,
\* then the value the call before returned.
NormInput ==
  IF norm.results = <<>> THEN norm.value ELSE norm.results[Len(norm.results)]

\* A call of subst_and_normalize_erasing_regions.
Normalize ==
  /\ Len(norm.results) < MaxNormalize
  /\ norm' = [norm EXCEPT !.results =
                Append(@, subst_and_normalize_erasing_regions(
                            norm.param_substs, norm.param_env, NormInput))]
  /\ UNCHANGED <<pc, locals, cache, started, select_calls, outcomes>>

\* The normalizer is called with any substitution, environment and value.
NormInit ==
  /\ InitCalls
  /\ norm \in {NormCall(s, env, v) :
                 s \in Substs, env \in ProjectionEnvs, v \in Values}

NormNext == Normalize

NormSpec == NormInit /\ [][NormNext]_vars

TypeOK ==
  /\ pc \in [Calls -> {"Idle", "Open", "Selecting", "Registering", "Fulfilling",
                       "Resolving", "Erasing", "Lifting", "Lifted", "Hit",
                       "Fatal"}]
  /\ started \in 0..MaxStarted

\* ------------------------------------------------------------------ claims

\* Calls whose top-level selection has been run.
Selected(c) ==
  pc[c] \in {"Registering", "Fulfilling", "Resolving", "Erasing", "Lifting",
             "Lifted", "Fatal"}

\* C1: when single-step selection of the top-level obligation returns
\* Ok(None) or Err(e), the call is Fatal with an Ambiguity or SelectionError
\* report: it holds no selection, returns nothing, and the cache has no entry
\* for its key.
C1_SelectionFailureIsFatal ==
  \A c \in Calls :
    (Selected(c) /\ select(obligation[c]).tag # "OkSome") =>
      /\ pc[c] = "Fatal"
      /\ report[c].class =
           (IF select(obligation[c]).tag = "OkNone"
              THEN "Ambiguity" ELSE "SelectionError")
      /\ selection[c] = None
      /\ fulfill_cx[c] = None
      /\ ret[c] = None
      /\ key[c] \notin DOMAIN cache

\* One call went Fatal on an ambiguous selection and another on a selection
\* error.
C1_Witness ==
  \E c, d \in Calls :
    /\ pc[c] = "Fatal" /\ report[c].class = "Ambiguity"
    /\ select(obligation[c]).tag = "OkNone"
    /\ pc[d] = "Fatal" /\ report[d].class = "SelectionError"
    /\ select(obligation[d]).tag = "Err"

\* A vtable with no unresolved inference placeholder and no region annotation.
Clean(v) == Placeholders(v) = 0 /\ RegionAnnotations(v) = 0

\* C2: every value returned by drain_fulfillment_cx_or_panic, returned by a
\* call or stored in the trait cache holds no unresolved inference placeholder
\* and no region annotation; a call whose resolved and erased result still
\* holds one is Fatal and returns nothing.
C2_NoLeftoverState ==
  /\ \A c \in Calls : ret[c] # None => Clean(ret[c])
  /\ \A k \in DOMAIN cache : Clean(cache[k])
  /\ \A c \in Calls :
       (pc[c] \in {"Lifted", "Fatal"} /\ result[c] # None /\ ~Clean(result[c])) =>
         (pc[c] = "Fatal" /\ ret[c] = None /\ report[c].class = "UnliftedState")

\* A call whose selection held a placeholder and a region variable returned a
\* clean value, and another call went Fatal at lifting.
C2_Witness ==
  \E c, d \in Calls :
    /\ pc[c] = "Lifted" /\ Placeholders(selection[c]) > 0
    /\ RegionAnnotations(selection[c]) > 0 /\ Clean(ret[c])
    /\ pc[d] = "Fatal" /\ report[d].class = "UnliftedState"
    /\ Placeholders(result[d]) > 0

\* The outcomes of the calls that ended for key k.
Outs(k) == {o.out : o \in outcomes[k]}

\* A resolution for key k has succeeded.
Succeeded(k) == Outs(k) \ {FatalOutcome} # {}

Active(c) == arg[c] # None

\* C4, as stated: two calls whose (environment, trait reference) pairs differ
\* only in region annotations, those of the environment included, use the
\* same cache key.
C4_AsStated ==
  \A c, d \in Calls :
    (/\ Active(c) /\ Active(d)
     /\ ErasedPair(arg[c][1], arg[c][2]) = ErasedPair(arg[d][1], arg[d][2])) =>
      key[c] = key[d]

\* C4, amended: the trait reference of every cache key is region-erased, and
\* calls with the same environment whose trait references differ only in
\* region annotations use the same cache key and end with the same vtable.
C4_RegionErasedKey ==
  /\ \A k \in DOMAIN cache : k[2].rgn = ReErased
  /\ \A c \in Calls : Active(c) => key[c] = KeyOf(arg[c][1], arg[c][2])
  /\ \A c, d \in Calls :
       (/\ Active(c) /\ Active(d)
        /\ arg[c][1] = arg[d][1]
        /\ erase_regions_ref(arg[c][2]) = erase_regions_ref(arg[d][2])) =>
         /\ key[c] = key[d]
         /\ (ret[c] # None /\ ret[d] # None) => ret[c] = ret[d]
  /\ \A k \in Keys : \A a, b \in outcomes[k] : a.out = b.out

\* Two calls with the same environment and trait references that differ in
\* their region have ended with the same vtable, one by resolving it and the
\* other from the cache entry of their common key.
C4_Witness ==
  \E k \in Keys : \E a, b \in outcomes[k] :
    /\ a.arg[1] = b.arg[1]
    /\ a.arg[2].rgn # b.arg[2].rgn
    /\ a.out = b.out /\ a.out # FatalOutcome
    /\ select_calls[k] = 1
    /\ k \in DOMAIN cache /\ cache[k] = a.out

\* The worklist of call c has been drained with nothing left: no obligation
\* pending, stalled or failed.
FullyDrained(c) ==
  /\ fulfill_cx[c] # None
  /\ fulfill_cx[c].pending = <<>>
  /\ fulfill_cx[c].stalled = <<>>
  /\ fulfill_cx[c].errors = <<>>

\* C5: an entry enters the trait cache only as the returned value of a call
\* that reached Lifted with its worklist fully drained; the step that takes a
\* call to Fatal leaves the cache unchanged, and the cache has no entry for
\* the key of a Fatal call.
C5_NoPartialOrFailedEntry ==
  /\ [](\A c \in Calls : pc[c] = "Fatal" => key[c] \notin DOMAIN cache)
  /\ [][/\ \A c \in Calls :
            (pc[c] # "Fatal" /\ pc'[c] = "Fatal") => cache' = cache
        /\ \A k \in DOMAIN cache' :
            k \notin DOMAIN cache =>
              \E c \in Calls :
                /\ pc[c] = "Lifted" /\ key[c] = k /\ cache'[k] = ret[c]
                /\ FullyDrained(c)
                /\ Clean(ret[c])]_vars

\* The cache holds an entry while a call is Fatal at the drain of its
\* worklist.
C5_Witness ==
  /\ DOMAIN cache # {}
  /\ \E c \in Calls :
       /\ pc[c] = "Fatal" /\ report[c].class = "UnresolvedObligation"
       /\ key[c] \notin DOMAIN cache

\* A complete descriptor for key k: the candidate selected for k, with every
\* substitution term, one () per nested obligation, and no inference or region
\* state.
Complete(k, v) ==
  LET r == select(new_obligation(k[1], k[2]))
  IN /\ r.tag = "OkSome"
     /\ v.kind = r.selection.kind
     /\ v.impl = r.selection.impl
     /\ Len(v.substs) = Len(r.selection.substs)
     /\ v.nested = [i \in 1..Len(r.selection.nested) |-> Unit]
     /\ Clean(v)

\* C6: every entry a reader can see in the trait cache is a complete
\* descriptor, an entry that is visible never changes or disappears, and a
\* call that finishes a duplicate computation of a key that already has an
\* entry leaves the cache as it is.
C6_SerializedCache ==
  /\ [](\A k \in DOMAIN cache : Complete(k, cache[k]))
  /\ [][/\ \A k \in DOMAIN cache :
            k \in DOMAIN cache' /\ cache'[k] = cache[k]
        /\ \A c \in Calls :
            (pc[c] = "Lifted" /\ pc'[c] = "Idle" /\ key[c] \in DOMAIN cache) =>
              cache' = cache]_vars

\* Two calls computed the same key at the same time: one has written the
\* entry and the other, with its own value of the resolution, is about to
\* write.
C6_Witness ==
  \E c \in Calls :
    /\ pc[c] = "Lifted" /\ key[c] \in DOMAIN cache
    /\ select_calls[key[c]] = 2
    /\ Len(ret[c].nested) > 0

\* Every obligation that o leads to can be discharged: selection returns a
\* candidate for o and, transitively, for each nested obligation.
RECURSIVE Satisfiable(_)
Satisfiable(o) ==
  LET r == select(o)
  IN /\ r.tag = "OkSome"
     /\ \A i \in 1..Len(r.selection.nested) : Satisfiable(r.selection.nested[i])

\* The obligations whose discharge o leads to, o included.
RECURSIVE Discharges(_)
Discharges(o) ==
  LET r == select(o)
  IN IF r.tag # "OkSome" THEN {}
     ELSE {o} \cup UNION {Discharges(r.selection.nested[i]) :
                            i \in 1..Len(r.selection.nested)}

\* The chosen candidate of o is determined: it has no placeholder, or the
\* discharge of a nested obligation unifies it.
Determined(o) ==
  LET r == select(o)
  IN /\ r.tag = "OkSome"
     /\ Placeholders(r.selection) > 0 =>
          \E n \in Discharges(o) : n.binds # NoBinds /\ n.binds[1] = TyVar

\* Calls that run a resolution (the lookup missed).
Resolving(c) ==
  pc[c] \in {"Selecting", "Registering", "Fulfilling", "Resolving", "Erasing",
             "Lifting", "Lifted", "Fatal"}

Registered(c) ==
  Range(selection[c].nested) \cup
  UNION {Range(select(o).selection.nested) : o \in Range(fulfill_cx[c].discharged)}

\* The obligations of call c left undischarged.
Undischarged(c) == Registered(c) \ Range(fulfill_cx[c].discharged)

\* Calls past the drain of the worklist.
PastDrain(c) ==
  /\ pc[c] \in {"Resolving", "Erasing", "Lifting", "Lifted", "Fatal"}
  /\ fulfill_cx[c] # None

\* C8: a call whose worklist leaves obligations undischarged is Fatal with an
\* UnresolvedObligation report whose error set names every one of them.
C8_FullErrorSet ==
  \A c \in Calls :
    (PastDrain(c) /\ Undischarged(c) # {}) =>
      /\ pc[c] = "Fatal"
      /\ report[c].class = "UnresolvedObligation"
      /\ Undischarged(c) =
           {report[c].errors[i].obligation : i \in 1..Len(report[c].errors)}

\* A call went Fatal at the drain with two undischarged obligations, one
\* failed and one stalled, both reported.
C8_Witness ==
  \E c \in Calls :
    /\ pc[c] = "Fatal" /\ fulfill_cx[c] # None
    /\ Cardinality(Undischarged(c)) = 2
    /\ Len(report[c].errors) = 2
    /\ Len(fulfill_cx[c].stalled) = 1

\* The fully resolved descriptor of an obligation: its candidate with the
\* resolved descriptor of each nested obligation.
RECURSIVE ResolvedDescriptor(_)
ResolvedDescriptor(o) ==
  LET sel == select(o).selection
  IN [sel EXCEPT !.nested =
        [i \in 1..Len(sel.nested) |-> ResolvedDescriptor(sel.nested[i])]]

\* C9, as stated: the vtable a call returns carries, for each nested
\* obligation of the chosen candidate, that obligation's resolved descriptor.
C9_AsStated ==
  \A c \in Calls :
    pc[c] = "Lifted" =>
      \A i \in 1..Len(selection[c].nested) :
        /\ i \in DOMAIN ret[c].nested
        /\ ret[c].nested[i] = ResolvedDescriptor(selection[c].nested[i])

\* C9, amended: the vtable a call returns carries one () for each nested
\* obligation of the chosen candidate, each of these obligations has been
\* discharged by the worklist, and no obligation remains pending, stalled or
\* failed.
C9_NestedDischarged ==
  \A c \in Calls :
    pc[c] = "Lifted" =>
      /\ Len(ret[c].nested) = Len(selection[c].nested)
      /\ \A i \in 1..Len(ret[c].nested) : ret[c].nested[i] = Unit
      /\ Range(selection[c].nested) \subseteq Range(fulfill_cx[c].discharged)
      /\ FullyDrained(c)

\* `Vec<i32>: Clone` resolved to the impl candidate with its single nested
\* obligation `i32: Clone` discharged.
C9_Witness ==
  \E c \in Calls :
    /\ pc[c] = "Lifted"
    /\ trait_ref[c].pred = "Vec<i32>: Clone"
    /\ Len(selection[c].nested) = 1
    /\ selection[c].nested[1].predicate.pred = "i32: Clone"
    /\ ret[c].kind = "Impl" /\ ret[c].nested = <<Unit>>

\* C10: all calls made for (environment, trait reference) pairs that are equal
\* after region erasure end with the same outcome: the same vtable, or Fatal.
C10_Determinism ==
  \A k1, k2 \in Keys :
    erase_regions_env(k1[1]) = erase_regions_env(k2[1]) /\ k1[2] = k2[2] =>
      Cardinality(Outs(k1) \cup Outs(k2)) <= 1

\* Two calls whose environments differ in their region have ended with the
\* same vtable.
C10_Witness ==
  \E k1, k2 \in Keys :
    /\ k1 # k2
    /\ erase_regions_env(k1[1]) = erase_regions_env(k2[1]) /\ k1[2] = k2[2]
    /\ Outs(k1) # {} /\ Outs(k1) = Outs(k2)
    /\ FatalOutcome \notin Outs(k1)

\* A substitution that maps every type parameter to a type without parameters.
Monomorphic(substs) == \A p \in Params : substs[p].leaf \notin Params

\* Each value the normalizer returned when it was given its own output is
\* that output.
Idempotent ==
  \A i \in 2..Len(norm.results) : norm.results[i] = norm.results[i - 1]

\* C11, as stated: for every substitution, environment and value, normalizing
\* the output of subst_and_normalize_erasing_regions again with the same
\* substitution and environment returns it unchanged.
C11_AsStated == Idempotent

\* C11, amended: for every substitution that maps the type parameters to
\* types without parameters, every environment and every value, normalizing
\* the output of subst_and_normalize_erasing_regions again with the same
\* substitution and environment returns it unchanged.
C11_MonomorphicIdempotence ==
  Monomorphic(norm.param_substs) => Idempotent

\* The normalizer was applied twice with a monomorphic substitution to a value
\* with a type parameter: the first call substituted the parameter, erased a
\* region and reduced a projection, and the second call changed nothing.
C11_Witness ==
  /\ Len(norm.results) = 2
  /\ Monomorphic(norm.param_substs)
  /\ norm.value = Ty(<<RefA, "Item">>, "T")
  /\ norm.param_substs["T"] = Ty(<<"Vec">>, "i32")
  /\ norm.results[1] = Ty(<<RefErased>>, "i32")
  /\ norm.results[2] = norm.results[1]

\* The phase of a call at position p: the worklist is created, filled and
\* drained in Fulfilling; the result is resolved, erased and lifted in
\* Finalizing; a call served from the cache runs no resolution.
PhaseOf(p) ==
  CASE p = "Idle" -> "NoCall"
    [] p = "Hit" -> "Cached"
    [] p \in {"Registering", "Fulfilling"} -> "Fulfilling"
    [] p \in {"Resolving", "Erasing", "Lifting"} -> "Finalizing"
    [] OTHER -> p

\* The changes of phase of the state machine, with the start of a call, the
\* return of a Lifted call and the call served from the cache.
PhaseOrder ==
  {<<"NoCall", "Open">>, <<"Open", "Selecting">>, <<"Open", "Cached">>,
   <<"Selecting", "Fulfilling">>, <<"Selecting", "Fatal">>,
   <<"Fulfilling", "Finalizing">>, <<"Fulfilling", "Fatal">>,
   <<"Finalizing", "Lifted">>, <<"Finalizing", "Fatal">>,
   <<"Lifted", "NoCall">>, <<"Cached", "NoCall">>}

\* C12: a resolution call changes phase only along Open, Selecting,
\* Fulfilling, Finalizing and then Lifted or Fatal; Fatal is entered only from
\* Selecting, Fulfilling or Finalizing and is never left; a Lifted call does
\* nothing but return; and a call that entered Selecting ends Lifted or Fatal.
C12_PhaseOrder ==
  /\ [][\A c \in Calls :
          /\ PhaseOf(pc[c]) # PhaseOf(pc'[c]) =>
               <<PhaseOf(pc[c]), PhaseOf(pc'[c])>> \in PhaseOrder
          /\ pc[c] = "Fatal" => pc'[c] = "Fatal"
          /\ pc[c] = "Lifted" => pc'[c] \in {"Lifted", "Idle"}]_vars
  /\ \A c \in Calls :
       (pc[c] = "Selecting") ~> (pc[c] \in {"Lifted", "Fatal"})

\* One call went Fatal from Finalizing, and a later call is Lifted after its
\* worklist discharged an obligation that appeared during the drain.
C12_Witness ==
  \E c, d \in Calls :
    /\ pc[c] = "Fatal" /\ report[c].class = "UnliftedState"
    /\ pc[d] = "Lifted" /\ Len(fulfill_cx[d].discharged) = 2

\* Calls whose drain has ended with success.
DrainSucceeded(c) == pc[c] \in {"Resolving", "Erasing", "Lifting", "Lifted"}

\* C13: the drain ends with success only in a step taken with an empty
\* worklist, and in every call whose drain succeeded, a Lifted call included,
\* each obligation registered from the chosen candidate or produced by the
\* discharge of another one has been discharged: none is pending, stalled,
\* failed or missing.
C13_DrainedWhenEmpty ==
  /\ [](\A c \in Calls :
          DrainSucceeded(c) =>
            /\ FullyDrained(c)
            /\ Undischarged(c) = {}
            /\ Registered(c) = Range(fulfill_cx[c].discharged))
  /\ [][\A c \in Calls :
          (pc[c] = "Fulfilling" /\ pc'[c] # "Fulfilling") =>
            /\ fulfill_cx[c].pending = <<>>
            /\ pc'[c] = "Resolving" =>
                 (fulfill_cx[c].stalled = <<>> /\ fulfill_cx[c].errors = <<>>)]_vars

\* A call is Lifted whose candidate registered one obligation and whose
\* drain discharged it and the obligation its discharge produced.
C13_Witness ==
  \E c \in Calls :
    /\ pc[c] = "Lifted"
    /\ Len(selection[c].nested) = 1
    /\ Cardinality(Registered(c)) = 2
    /\ Registered(c) = Range(fulfill_cx[c].discharged)
    /\ fulfill_cx[c].pending = <<>>

\* C14: the finalizer holds no result before the drain has succeeded; the
\* result it erases is the vtable with its placeholders resolved after the
\* drain; the result it lifts is that resolved value with its regions erased;
\* the value it returns is the lift of that one; and a call that is Fatal at
\* the drain has resolved, erased and lifted nothing.
C14_FinalizerOrder ==
  /\ [](\A c \in Calls :
          /\ pc[c] \in {"Open", "Selecting", "Registering", "Fulfilling",
                        "Resolving"} => result[c] = None
          /\ pc[c] = "Erasing" =>
               /\ FullyDrained(c)
               /\ result[c] = resolve_type_vars_if_possible(infcx[c], vtable[c])
          /\ pc[c] = "Lifting" =>
               /\ FullyDrained(c)
               /\ result[c] = erase_regions(
                                resolve_type_vars_if_possible(infcx[c], vtable[c]))
          /\ pc[c] = "Lifted" =>
               /\ result[c] = erase_regions(result[c])
               /\ ret[c] = lift_to_global(result[c])
          /\ (pc[c] = "Fatal" /\ report[c].class = "UnliftedState") =>
               /\ result[c] = erase_regions(result[c])
               /\ lift_to_global(result[c]) = None
          /\ (pc[c] = "Fatal" /\ report[c].class = "UnresolvedObligation") =>
               (result[c] = None /\ ret[c] = None))
  /\ [][\A c \in Calls :
          result'[c] # result[c] =>
            \/ pc[c] = "Resolving" /\ pc'[c] = "Erasing"
            \/ pc[c] = "Erasing" /\ pc'[c] = "Lifting"
            \/ pc[c] \in {"Lifted", "Hit"} /\ pc'[c] = "Idle"]_vars

\* One call is Fatal at the drain with no result, and another is Lifted with
\* a value in which the finalizer resolved a placeholder and then erased a
\* region.
C14_Witness ==
  \E c, d \in Calls :
    /\ pc[c] = "Fatal" /\ report[c].class = "UnresolvedObligation"
    /\ result[c] = None
    /\ pc[d] = "Lifted"
    /\ Placeholders(vtable[d]) > 0 /\ RegionAnnotations(vtable[d]) > 0
    /\ Clean(result[d]) /\ ret[d] = result[d]

\* The worklist of call c has made no attempt yet.
NoAttempt(c) ==
  /\ fulfill_cx[c].discharged = <<>>
  /\ fulfill_cx[c].stalled = <<>>
  /\ fulfill_cx[c].errors = <<>>

\* Every obligation the worklist of call c holds or has held.
Held(c) ==
  Range(fulfill_cx[c].pending) \cup Range(fulfill_cx[c].discharged) \cup
  Range(fulfill_cx[c].stalled) \cup
  {fulfill_cx[c].errors[i].obligation : i \in 1..Len(fulfill_cx[c].errors)}

\* C15: when the drain starts, the worklist holds the nested obligations of
\* the chosen candidate, each of them once and nothing else; they are all
\* registered in the step before the drain, and none of them leaves the
\* worklist other than by an attempt on it.
C15_NestedRegisteredOnce ==
  /\ [](\A c \in Calls :
          /\ (pc[c] = "Fulfilling" /\ NoAttempt(c)) =>
               fulfill_cx[c].pending = selection[c].nested
          /\ (pc[c] = "Fulfilling" \/ PastDrain(c)) =>
               Range(selection[c].nested) \subseteq Held(c)
          /\ pc[c] \in {"Open", "Selecting", "Registering"} =>
               fulfill_cx[c] = None)
  /\ [][\A c \in Calls :
          (fulfill_cx[c] = None /\ fulfill_cx'[c] # None) =>
            /\ pc[c] = "Registering" /\ pc'[c] = "Fulfilling"
            /\ fulfill_cx'[c].pending = selection[c].nested
            /\ NoAttempt(c)']_vars

\* The drain of a call is about to start on the two nested obligations of
\* its candidate.
C15_Witness ==
  \E c \in Calls :
    /\ pc[c] = "Fulfilling" /\ NoAttempt(c)
    /\ Len(selection[c].nested) = 2
    /\ selection[c].nested[1] # selection[c].nested[2]
    /\ fulfill_cx[c].pending = selection[c].nested

\* The positions of a call inside the closure of `enter`.
InSession(c) ==
  pc[c] \in {"Selecting", "Registering", "Fulfilling", "Resolving", "Erasing",
            "Lifting"}

\* A value that refers to no placeholder of an inference session, type or
\* region.
SessionFree(v) ==
  \A i \in 1..Len(v.substs) : v.substs[i].ty # TyVar /\ v.substs[i].rgn # ReVar

\* The bindings the worklist of call c has made by discharging obligations.
OwnBindings(c) ==
  IF fulfill_cx[c] = None THEN {}
  ELSE {o.binds[2] : o \in {x \in Range(fulfill_cx[c].discharged) :
                              x.binds # NoBinds}}

\* C16: a call has an inference session exactly while it is inside `enter`;
\* the session is opened fresh, once, on the way from Open to Selecting and
\* is closed when the call becomes Lifted or Fatal, before it returns; under
\* every interleaving the session of a call changes only in a step of that
\* call and binds only what the call's own worklist unified; and no returned
\* or cached value refers to a placeholder of a session.
C16_SessionIsolation ==
  /\ [](\A c \in Calls :
          /\ (infcx[c] # None) <=> InSession(c)
          /\ (infcx[c] # None /\ infcx[c].ty_var # Unbound) =>
               infcx[c].ty_var \in OwnBindings(c)
          /\ ret[c] # None => SessionFree(ret[c]))
  /\ [](\A k \in DOMAIN cache : SessionFree(cache[k]))
  /\ [][\A c \in Calls :
          /\ (infcx[c] = None /\ infcx'[c] # None) =>
               /\ pc[c] = "Open" /\ pc'[c] = "Selecting"
               /\ infcx'[c] = InferCtxt_new
          /\ (infcx[c] # None /\ infcx'[c] = None) =>
               pc'[c] \in {"Lifted", "Fatal"}
          /\ infcx'[c] # infcx[c] =>
               \A d \in Calls \ {c} :
                 /\ pc'[d] = pc[d] /\ fulfill_cx'[d] = fulfill_cx[d]
                 /\ infcx'[d] = infcx[d]
          /\ (pc[c] = "Lifted" /\ pc'[c] = "Idle") => infcx[c] = None]_vars

\* Two calls have their sessions open at the same time: the worklist of one
\* has bound its placeholder, and the placeholder of the other's candidate is
\* unbound in its own session.
C16_Witness ==
  \E c, d \in Calls :
    /\ c # d
    /\ infcx[c] # None /\ infcx[c].ty_var = "i32"
    /\ infcx[d] # None /\ infcx[d].ty_var = Unbound
    /\ selection[d] # None /\ Placeholders(selection[d]) > 0
    /\ pc[d] = "Lifting"

\* Calls that have built their top-level obligation.
HasObligation(c) == obligation[c] # None

\* C17: the top-level obligation of a call carries the environment exactly as
\* the caller supplied it and the trait reference with its regions erased,
\* and nothing else of the input is changed; two calls whose environments
\* differ only in region annotations hand different environments to
\* selection.
C17_EnvironmentAsSupplied ==
  /\ \A c \in Calls :
       Active(c) =>
         /\ param_env[c] = arg[c][1]
         /\ trait_ref[c] = erase_regions_ref(arg[c][2])
         /\ HasObligation(c) =>
              /\ obligation[c].param_env = arg[c][1]
              /\ obligation[c].predicate = erase_regions_ref(arg[c][2])
  /\ \A c, d \in Calls :
       (/\ HasObligation(c) /\ HasObligation(d)
        /\ arg[c][1] # arg[d][1]
        /\ erase_regions_env(arg[c][1]) = erase_regions_env(arg[d][1])) =>
         obligation[c].param_env # obligation[d].param_env

\* Two calls for the same trait reference, in environments that differ only
\* in their region, have selected on obligations with different environments,
\* and the candidate of each carries the region of its own environment.
C17_Witness ==
  \E c, d \in Calls :
    /\ HasObligation(c) /\ HasObligation(d)
    /\ arg[c][2] = arg[d][2]
    /\ arg[c][1].rgn = "'a" /\ arg[d][1].rgn = ReErased
    /\ erase_regions_env(arg[c][1]) = arg[d][1]
    /\ obligation[c].param_env.rgn = "'a"
    /\ obligation[d].param_env.rgn = ReErased
    /\ selection[c] # None /\ selection[d] # None
    /\ selection[c].substs[1].rgn = "'a"
    /\ selection[d].substs[1].rgn = ReErased

\* Calls that are Fatal at their selection.
FatalAtSelection(c) ==
  pc[c] = "Fatal" /\ report[c].class \in {"Ambiguity", "SelectionError"}

\* C18: the selection engine's counter moves only in the step in which a call
\* leaves Selecting, by one, and every such step moves it, so each call
\* selects once; what it selects on is its top-level obligation; a worklist
\* exists only in a call whose selection returned a candidate, and when it
\* appears it holds the nested obligations of that candidate and nothing
\* else; a call that is Fatal at its selection has no worklist, no selection
\* and no vtable.
C18_SelectOnceThenWorklist ==
  /\ [](\A c \in Calls :
          /\ selection[c] # None =>
               /\ obligation[c] = new_obligation(arg[c][1], erase_regions_ref(arg[c][2]))
               /\ select(obligation[c]) = OkSome(selection[c])
          /\ fulfill_cx[c] # None =>
               (selection[c] # None /\ pc[c] \notin {"Open", "Selecting", "Registering"})
          /\ FatalAtSelection(c) =>
               (fulfill_cx[c] = None /\ selection[c] = None /\ vtable[c] = None))
  /\ [][/\ \A k \in Keys :
            select_calls'[k] # select_calls[k] =>
              /\ select_calls'[k] = select_calls[k] + 1
              /\ \E c \in Calls :
                   /\ pc[c] = "Selecting" /\ pc'[c] \in {"Registering", "Fatal"}
                   /\ KeyOf(arg[c][1], arg[c][2]) = k
        /\ \A c \in Calls :
            /\ (pc[c] = "Selecting" /\ pc'[c] # "Selecting") =>
                 select_calls'[KeyOf(arg[c][1], arg[c][2])] =
                   select_calls[KeyOf(arg[c][1], arg[c][2])] + 1
            /\ pc'[c] = "Selecting" => pc[c] \in {"Open", "Selecting"}
            /\ (fulfill_cx[c] = None /\ fulfill_cx'[c] # None) =>
                 /\ selection[c] # None
                 /\ Held(c)' = Range(selection[c].nested)
                 /\ Len(fulfill_cx'[c].pending) = Len(selection[c].nested)]_vars

\* One call is Fatal at its selection with no worklist, and another has
\* selected once and created its worklist with the nested obligation of its
\* candidate.
C18_Witness ==
  \E c, d \in Calls :
    /\ FatalAtSelection(c) /\ fulfill_cx[c] = None
    /\ select_calls[KeyOf(arg[c][1], arg[c][2])] = 1
    /\ pc[d] = "Fulfilling" /\ NoAttempt(d)
    /\ Len(fulfill_cx[d].pending) = 1
    /\ select_calls[KeyOf(arg[d][1], arg[d][2])] = 1

====
